---- MODULE Spec2Model ----
(***************************************************************************)
(* A model of valenai.py: the process-wide credential rotation             *)
(* (api_key_queue, get_next_api_key, genai.configure) and the /chat       *)
(* handler with its self-recursive retry.                                  *)
(*                                                                         *)
(* Texts the code inspects character by character (the model's reply) are  *)
(* sequences of one-character strings; exception messages, which the code  *)
(* only lower-cases and searches for a phrase, are sequences of words.     *)
(***************************************************************************)
EXTENDS Integers, Sequences, FiniteSets, TLC

\* ------------------------------------------------------------------ bounds
MaxKeys == 3        \* the longest configured credential list explored
MaxReqs == 2        \* the number of /chat requests explored
MaxDepth == 3       \* nested chat() frames before the interpreter's recursion limit
MaxPiece == 2       \* the longest piece (before, inside, after a span) of a text
MaxText == 5        \* the longest arbitrary text given to remove_markdown
MaxFields == 3      \* the most comma-separated entries of GEMINI_API_KEYS

\* ------------------------------------------------------------- credentials
Keys == <<"k1", "k2", "k3", "k4", "k5">>

\* API_KEYS after start-up: a non-empty list of credentials (line 25-27).
KeyLists == { SubSeq(Keys, 1, n) : n \in 1..MaxKeys }

\* A variant of deque.rotate(-1) that appends the front element without
\* removing it.
RotateLeft_KeepsFront(q) == IF q = << >> THEN q ELSE q \o << Head(q) >>

\* deque.rotate(-1): the front element moves to the back.
RotateLeft(q) == IF q = << >> THEN q ELSE Tail(q) \o << Head(q) >>

\* get_next_api_key(): rotates the queue once; the caller reads element 0.
get_next_api_key(q) == RotateLeft(q)

\* ---------------------------------------------------------------- requests
Reqs == 1..MaxReqs

None == "<None>"

\* A request body: text that is not JSON, a JSON value that is not an object,
\* or a JSON object whose fields may be absent (None).
Bodies ==
    { [kind |-> "notjson", message |-> None, chat_id |-> None],
      [kind |-> "array",   message |-> None, chat_id |-> None],
      [kind |-> "object",  message |-> None, chat_id |-> "c1"],
      [kind |-> "object",  message |-> "",   chat_id |-> "c1"],
      [kind |-> "object",  message |-> "hi", chat_id |-> None],
      [kind |-> "object",  message |-> "hi", chat_id |-> "c1"] }

NoBody == [kind |-> "none", message |-> None, chat_id |-> None]

\* ---------------------------------------------------- exception messages
\* str.lower() on one word.
LowerWord(w) ==
    CASE w = "Quota" -> "quota"
      [] w = "Exceeded" -> "exceeded"
      [] w = "Invalid" -> "invalid"
      [] w = "API" -> "api"
      [] w = "Key" -> "key"
      [] w = "Bad" -> "bad"
      [] w = "Request" -> "request"
      [] OTHER -> w

\* str(e).lower()
Lower(s) == [ i \in 1..Len(s) |-> LowerWord(s[i]) ]

\* needle in haystack
Contains(hay, needle) ==
    \E i \in 0..(Len(hay) - Len(needle)) :
        \A j \in 1..Len(needle) : hay[i + j] = needle[j]

\* The two phrases the handler searches the lower-cased message for
\* (lines 770 and 778), exactly as written in the source.
InvalidKeyPhrase == << "invalid", "API", "key" >>
QuotaPhrase == << "quota", "exceeded" >>

\* The ClientError messages the completion service may answer with.
ClientMessages ==
    { << "429", "Quota", "exceeded" >>,
      << "400", "Invalid", "API", "key" >>,
      << "400", "Bad", "Request" >> }

\* ---------------------------------------------------------- response bodies
ErrNoMessage == << "No message provided" >>
MsgCapacity ==
    << "Due to unexpected capacity constraints, I am unable to respond to your message. Please try again soon." >>
MsgProcessing == << "An error occurred while processing your request." >>
MsgGenerating == << "An error occurred while generating a response." >>

ErrorBody(text) == [field |-> "error", value |-> text]
ResponseBody(text) == [field |-> "response", value |-> text]
NoResponse == [field |-> "none", value |-> << >>]
\* The request ended in an exception that left the handler.
Unhandled == [field |-> "unhandled", value |-> << >>]

\* ------------------------------------------------------------- reply text
\* str.strip(): leading and trailing whitespace removed.
Whitespace == { " ", "\n" }

RECURSIVE LStrip(_)
LStrip(t) ==
    IF t # << >> /\ Head(t) \in Whitespace THEN LStrip(Tail(t)) ELSE t

RECURSIVE RStrip(_)
RStrip(t) ==
    IF t # << >> /\ t[Len(t)] \in Whitespace
    THEN RStrip(SubSeq(t, 1, Len(t) - 1))
    ELSE t

Strip(t) == RStrip(LStrip(t))

\* ------------------------------------------------- start-up (lines 22-27)
\* os.getenv: the variable is unset (None) or holds a text.
EnvUnset == [set |-> FALSE, value |-> << >>]
EnvText(t) == [set |-> TRUE, value |-> t]

\* str.split(","): the pieces between the commas, empty ones included.
RECURSIVE Split(_)
Split(s) ==
    IF \A i \in 1..Len(s) : s[i] # ","
    THEN << s >>
    ELSE LET i == CHOOSE k \in 1..Len(s) :
                      s[k] = "," /\ \A j \in 1..(k - 1) : s[j] # ","
         IN  << SubSeq(s, 1, i - 1) >> \o Split(SubSeq(s, i + 1, Len(s)))

\* A variant of line 25 without its filter,
\* [key.strip() for key in API_KEYS_STRING.split(",")].
ParseKeys_KeepsEmpty(s) ==
    LET pieces == Split(s)
    IN  [ i \in 1..Len(pieces) |-> Strip(pieces[i]) ]

\* Line 25: [key.strip() for key in API_KEYS_STRING.split(",") if key.strip()]
ParseKeys(s) ==
    LET pieces == Split(s)
        stripped == [ i \in 1..Len(pieces) |-> Strip(pieces[i]) ]
    IN  SelectSeq(stripped, LAMBDA k : k # << >>)

MissingEnvError == "Missing environment variable: GEMINI_API_KEYS"
NoKeysError == "No valid API keys found in GEMINI_API_KEYS"

\* The text of GEMINI_API_KEYS that yields the credential list l, each
\* credential written as one symbol.
RECURSIVE JoinKeys(_)
JoinKeys(l) ==
    IF l = << >> THEN << >>
    ELSE IF Len(l) = 1 THEN << l[1] >>
    ELSE << l[1], "," >> \o JoinKeys(Tail(l))

EnvOf(l) == EnvText(JoinKeys(l))

\* The positions j >= from at which `width` copies of d start, with no
\* newline in t[from .. j-1] ('.' does not match a newline).
Closers(t, from, d, width) ==
    { j \in from..(Len(t) - width + 1) :
        /\ \A k \in 0..(width - 1) : t[j + k] = d
        /\ \A k \in from..(j - 1) : t[k] # "\n" }

SetMin(S) == CHOOSE j \in S : \A k \in S : j <= k

NoMatch == [ok |-> FALSE, inner |-> << >>, end |-> 0]

\* d{width}(.*?)d{width} tried at position i: the lazy group stops at the
\* first closing delimiter.  end is the first position after the match.
MatchFixed(t, i, d, width) ==
    IF /\ i + width - 1 <= Len(t)
       /\ \A k \in 0..(width - 1) : t[i + k] = d
       /\ Closers(t, i + width, d, width) # {}
    THEN LET j == SetMin(Closers(t, i + width, d, width))
         IN  [ok |-> TRUE, inner |-> SubSeq(t, i + width, j - 1), end |-> j + width]
    ELSE NoMatch

\* A variant of line 742 whose closing run is a single underscore,
\* _{1,2}(.*?)_ .
MatchUnderscoreOpen_ClosesWithOne(t, i, open) ==
    IF /\ i + open - 1 <= Len(t)
       /\ \A k \in 0..(open - 1) : t[i + k] = "_"
       /\ Closers(t, i + open, "_", 1) # {}
    THEN LET j == SetMin(Closers(t, i + open, "_", 1))
         IN  [ok |-> TRUE, inner |-> SubSeq(t, i + open, j - 1), end |-> j + 1]
    ELSE NoMatch

\* _{1,2}(.*?)_{1,2} tried at position i with an opening run of `open`
\* underscores: the closing run is greedy (two when two are there).
MatchUnderscoreOpen(t, i, open) ==
    IF /\ i + open - 1 <= Len(t)
       /\ \A k \in 0..(open - 1) : t[i + k] = "_"
       /\ Closers(t, i + open, "_", 1) # {}
    THEN LET j == SetMin(Closers(t, i + open, "_", 1))
             close == IF j + 1 <= Len(t) /\ t[j + 1] = "_" THEN 2 ELSE 1
         IN  [ok |-> TRUE, inner |-> SubSeq(t, i + open, j - 1), end |-> j + close]
    ELSE NoMatch

\* The opening run is greedy too: two underscores first, then one.
MatchUnderscore(t, i) ==
    IF MatchUnderscoreOpen(t, i, 2).ok
    THEN MatchUnderscoreOpen(t, i, 2)
    ELSE MatchUnderscoreOpen(t, i, 1)

\* The four patterns of remove_markdown, in the order of lines 740-743.
Match(p, t, i) ==
    CASE p = "bold" -> MatchFixed(t, i, "*", 2)
      [] p = "italic" -> MatchFixed(t, i, "*", 1)
      [] p = "underline" -> MatchUnderscore(t, i)
      [] p = "strike" -> MatchFixed(t, i, "~", 2)

\* re.sub(pattern, r'\1', t) from position i on: leftmost matches, not
\* overlapping, each replaced by its group; other characters are copied.
RECURSIVE SubFrom(_, _, _)
SubFrom(p, t, i) ==
    IF i > Len(t) THEN << >>
    ELSE LET m == Match(p, t, i)
         IN  IF m.ok
             THEN m.inner \o SubFrom(p, t, m.end)
             ELSE << t[i] >> \o SubFrom(p, t, i + 1)

\* A variant of re.sub that replaces the leftmost match only (count=1).
Sub_FirstMatchOnly(p, t) ==
    LET hits == { i \in 1..Len(t) : Match(p, t, i).ok }
    IN  IF hits = {} THEN t
        ELSE LET m == Match(p, t, SetMin(hits))
             IN  SubSeq(t, 1, SetMin(hits) - 1) \o m.inner
                   \o SubSeq(t, m.end, Len(t))

Sub(p, t) == SubFrom(p, t, 1)

\* A variant of line 744 that returns text.strip().
remove_markdown_Strips(text) ==
    Strip(SubFrom("strike", SubFrom("underline",
            SubFrom("italic", SubFrom("bold", text, 1), 1), 1), 1))

remove_markdown(text) ==
    Sub("strike", Sub("underline", Sub("italic", Sub("bold", text))))

\* The label a model may put in front of its reply: the assistant's name
\* (line 40) and a colon.
AssistantLabel == << "V", "a", "l", "e", "n", ":" >>

\* response.text values the completion service may return.
ReplyTexts ==
    { << " " >> \o AssistantLabel
        \o << " ", "*", "*", "a", "*", "*", "_", "b", "_", "\n" >> }

\* ------------------------------------------------------------------ prompt
\* Line 765, f"{PERSONALITY_PROMPT}\n\nUser: {user_message}", as the
\* sequence of the pieces it concatenates.
PERSONALITY_PROMPT == "<persona preamble>"

Prompt(message) == << PERSONALITY_PROMPT, "\n\n", "User: ", message >>

\* ------------------------------------------------------------------- state
VARIABLES
    API_KEYS,        \* the credential list parsed at start-up (line 25)
    api_key_queue,   \* the process-wide rotation queue (line 29)
    configured,      \* the api_key genai was last configured with
    running,         \* the request whose coroutine holds the event loop, or 0
    pc,              \* per request: "idle", "json" (re-entered), "try" or "done"
    body,            \* per request: the body it was sent with
    depth,           \* per request: nested chat() frames below the first
    calls,           \* per request: its generate_content calls, in order
    resp,            \* per request: what the caller received
    user_message,    \* per request: data.get("message") of its current frame
    selected,        \* per request: the key its last rotation configured
    turns,           \* per chat_id: the conversation turns that are stored
    md_in,           \* remove_markdown on its own: the text given,
    md_out,          \*   the text returned,
    md_done,         \*   whether it has been applied,
    md_again,        \*   the text returned when md_out is passed in again,
    md_redone,       \*   and whether that has been done
    GEMINI_API_KEYS, \* the environment variable read at line 22
    startup          \* "pending", "running", or the ValueError of line 24/27

chatVars == << API_KEYS, api_key_queue, configured, running, pc, body, depth,
               calls, resp, user_message, selected, turns >>
mdVars == << md_in, md_out, md_done, md_again, md_redone >>
envVars == << GEMINI_API_KEYS, startup >>
offlineVars == << mdVars, envVars >>
vars == << chatVars, offlineVars >>

\* valenai.py holds no conversation store: the only state that outlives a
\* request is the rotation queue and the configured key.
ChatIds == { "c1" }
NoTurns == [c \in ChatIds |-> << >>]

\* No request has been received yet.
InitRequests ==
    /\ running = 0
    /\ pc = [r \in Reqs |-> "idle"]
    /\ body = [r \in Reqs |-> NoBody]
    /\ depth = [r \in Reqs |-> 0]
    /\ calls = [r \in Reqs |-> << >>]
    /\ resp = [r \in Reqs |-> NoResponse]
    /\ user_message = [r \in Reqs |-> None]
    /\ selected = [r \in Reqs |-> None]
    /\ turns = NoTurns

\* The module has been imported (lines 22-36) with the credential list
\* API_KEYS; each credential is written as one symbol.
InitChat ==
    /\ API_KEYS \in KeyLists
    /\ api_key_queue = API_KEYS
    /\ configured = Head(API_KEYS)
    /\ GEMINI_API_KEYS = EnvOf(API_KEYS)
    /\ startup = "running"
    /\ InitRequests

NoText ==
    /\ md_in = << >>
    /\ md_out = << >>
    /\ md_done = FALSE
    /\ md_again = << >>
    /\ md_redone = FALSE

Init == InitChat /\ NoText

\* One generate_content call: the credential genai was configured with when
\* it was made, and how the completion service answered.
Call(key, prompt, kind, msg, text) ==
    [key |-> key, prompt |-> prompt, kind |-> kind, msg |-> msg, text |-> text]

\* The handler returns b (through every frame of the recursion) and the
\* coroutine releases the event loop.
Return(r, b) ==
    /\ resp' = [resp EXCEPT ![r] = b]
    /\ pc' = [pc EXCEPT ![r] = "done"]
    /\ running' = 0

\* A variant of lines 751-752 that rejects only an absent message
\* (`is None` in place of `not`).
Validate_RejectsOnlyNone(r, b) ==
    IF b.kind # "object"
    THEN Return(r, Unhandled) /\ UNCHANGED user_message
    ELSE /\ user_message' = [user_message EXCEPT ![r] = b.message]
         /\ IF b.message = None
            THEN Return(r, ErrorBody(ErrNoMessage))
            ELSE /\ pc' = [pc EXCEPT ![r] = "try"]
                 /\ running' = r
                 /\ resp' = resp

\* Lines 749-752 for a body b.  request.json() raises on a body that is not
\* JSON and data.get raises on a JSON value that is not an object; both are
\* outside the try.  A falsy message is answered with the error body;
\* otherwise the coroutine goes on to the try block without giving up the
\* event loop (there is no await before generate_content returns).
Validate(r, b) ==
    IF b.kind # "object"
    THEN Return(r, Unhandled) /\ UNCHANGED user_message
    ELSE /\ user_message' = [user_message EXCEPT ![r] = b.message]
         /\ IF b.message \in { None, "" }
            THEN Return(r, ErrorBody(ErrNoMessage))
            ELSE /\ pc' = [pc EXCEPT ![r] = "try"]
                 /\ running' = r
                 /\ resp' = resp

\* A client posts a body to /chat and the event loop, when free, runs the
\* handler up to its first return or to the try block.  Requests are
\* numbered in the order in which the loop starts their handlers.
Receive(r) ==
    /\ pc[r] = "idle"
    /\ \A q \in 1..(r - 1) : pc[q] # "idle"
    /\ running = 0
    /\ \E b \in Bodies :
         /\ body' = [body EXCEPT ![r] = b]
         /\ Validate(r, b)
    /\ UNCHANGED << API_KEYS, api_key_queue, configured, depth, calls,
                    selected, turns, offlineVars >>

\* The nested chat(request) of line 775/783: request.json() returns the
\* body it cached, so the same body is validated again.
Reenter(r) ==
    /\ pc[r] = "json"
    /\ running = r
    /\ Validate(r, body[r])
    /\ UNCHANGED << API_KEYS, api_key_queue, configured, body, depth, calls,
                    selected, turns, offlineVars >>

\* A variant of line 765 that numbers the attempt in the prompt.
BuildPrompt_NumbersAttempt(r) == Prompt(user_message[r]) \o << depth[r] >>

\* A variant of line 765 that puts the messages of the earlier requests in
\* front of the new one (a conversation history).
BuildPrompt_AddsEarlierMessages(r) ==
    Prompt(user_message[r]) \o [ q \in 1..(r - 1) |-> body[q].message ]

\* Line 765 in the frame of request r.
BuildPrompt(r) == Prompt(user_message[r])

\* A variant of lines 766-767 and 792 that moves on to the next
\* credential after every reply (round-robin use of the credentials).
GenerateOk_RotatesAfterReply(r) ==
    /\ pc[r] = "try"
    /\ depth[r] < MaxDepth
    /\ \E text \in ReplyTexts :
         /\ calls' = [calls EXCEPT
                        ![r] = Append(@, Call(configured, Prompt(user_message[r]),
                                              "ok", << >>, text))]
         /\ Return(r, ResponseBody(remove_markdown(Strip(text))))
    /\ api_key_queue' = get_next_api_key(api_key_queue)
    /\ configured' = api_key_queue'[1]
    /\ UNCHANGED << API_KEYS, body, depth, user_message, selected, turns,
                    offlineVars >>

\* Lines 754-767 and 792: generate_content answers with text.
GenerateOk(r) ==
    /\ pc[r] = "try"
    /\ depth[r] < MaxDepth
    /\ \E text \in ReplyTexts :
         /\ calls' = [calls EXCEPT
                        ![r] = Append(@, Call(configured, BuildPrompt(r), "ok",
                                              << >>, text))]
         /\ Return(r, ResponseBody(remove_markdown(Strip(text))))
    /\ UNCHANGED << API_KEYS, api_key_queue, configured, body, depth,
                    user_message, selected, turns, offlineVars >>

\* A variant of lines 779-783 that gives up the event loop before the
\* retry (an await that suspends, such as a back-off sleep).
RotateAndRetry_YieldsLoop(r) ==
    IF Len(api_key_queue) > 1
    THEN /\ api_key_queue' = get_next_api_key(RotateLeft(api_key_queue))
         /\ selected' = [selected EXCEPT ![r] = Head(api_key_queue')]
         /\ configured' = selected'[r]
         /\ depth' = [depth EXCEPT ![r] = @ + 1]
         /\ pc' = [pc EXCEPT ![r] = "json"]
         /\ running' = 0
         /\ UNCHANGED resp
    ELSE /\ Return(r, ResponseBody(MsgCapacity))
         /\ UNCHANGED << api_key_queue, configured, depth, selected >>

\* A variant of lines 781-782 that configures genai with the front left by
\* line 781 and only then calls get_next_api_key().
RotateAndRetry_ConfiguresEarly(r) ==
    IF Len(api_key_queue) > 1
    THEN /\ api_key_queue' = get_next_api_key(RotateLeft(api_key_queue))
         /\ selected' = [selected EXCEPT ![r] = RotateLeft(api_key_queue)[1]]
         /\ configured' = selected'[r]
         /\ depth' = [depth EXCEPT ![r] = @ + 1]
         /\ pc' = [pc EXCEPT ![r] = "json"]
         /\ UNCHANGED << running, resp >>
    ELSE /\ Return(r, ResponseBody(MsgCapacity))
         /\ UNCHANGED << api_key_queue, configured, depth, selected >>

\* A variant of lines 779-785 whose test is len(api_key_queue) >= 1.
RotateAndRetry_RetriesWithOneKey(r) ==
    IF Len(api_key_queue) >= 1
    THEN /\ api_key_queue' = get_next_api_key(RotateLeft(api_key_queue))
         /\ selected' = [selected EXCEPT ![r] = Head(api_key_queue')]
         /\ configured' = selected'[r]
         /\ depth' = [depth EXCEPT ![r] = @ + 1]
         /\ pc' = [pc EXCEPT ![r] = "json"]
         /\ UNCHANGED << running, resp >>
    ELSE /\ Return(r, ResponseBody(MsgCapacity))
         /\ UNCHANGED << api_key_queue, configured, depth, selected >>

\* Lines 771-777 and 779-785: with more than one credential the queue is
\* rotated (line 773/781), rotated again by get_next_api_key(), genai is
\* configured with the new front and chat(request) is awaited again;
\* with one credential the capacity body is returned.
RotateAndRetry(r) ==
    IF Len(api_key_queue) > 1
    THEN /\ api_key_queue' = get_next_api_key(RotateLeft(api_key_queue))
         /\ selected' = [selected EXCEPT ![r] = Head(api_key_queue')]
         /\ configured' = selected'[r]
         /\ depth' = [depth EXCEPT ![r] = @ + 1]
         /\ pc' = [pc EXCEPT ![r] = "json"]
         /\ UNCHANGED << running, resp >>
    ELSE /\ Return(r, ResponseBody(MsgCapacity))
         /\ UNCHANGED << api_key_queue, configured, depth, selected >>

\* Lines 768-787: generate_content raises a ClientError with message msg.
GenerateClientError(r) ==
    /\ pc[r] = "try"
    /\ depth[r] < MaxDepth
    /\ \E msg \in ClientMessages :
         /\ calls' = [calls EXCEPT
                        ![r] = Append(@, Call(configured, BuildPrompt(r), "client",
                                              msg, << >>))]
         /\ IF Contains(Lower(msg), InvalidKeyPhrase)
            THEN RotateAndRetry(r)
            ELSE IF Contains(Lower(msg), QuotaPhrase)
                 THEN RotateAndRetry(r)
                 ELSE /\ Return(r, ResponseBody(MsgProcessing))
                      /\ UNCHANGED << api_key_queue, configured, depth,
                                      selected >>
    /\ UNCHANGED << API_KEYS, body, user_message, turns, offlineVars >>

\* A variant of lines 788-790 that treats any exception like a classified
\* ClientError.
GenerateOtherError_Retries(r) ==
    /\ pc[r] = "try"
    /\ depth[r] < MaxDepth
    /\ calls' = [calls EXCEPT
                   ![r] = Append(@, Call(configured, BuildPrompt(r), "other",
                                         << >>, << >>))]
    /\ RotateAndRetry(r)
    /\ UNCHANGED << API_KEYS, body, user_message, turns, offlineVars >>

\* A variant of lines 788-790 that returns what line 789 prints, an
\* exception text that names the credential used.
GenerateOtherError_ReturnsException(r) ==
    /\ pc[r] = "try"
    /\ depth[r] < MaxDepth
    /\ calls' = [calls EXCEPT
                   ![r] = Append(@, Call(configured, BuildPrompt(r), "other",
                                         << >>, << >>))]
    /\ Return(r, ResponseBody(<< "Error generating response: ", configured >>))
    /\ UNCHANGED << API_KEYS, api_key_queue, configured, body, depth,
                    user_message, selected, turns, offlineVars >>

\* Lines 788-790: any other exception of the try block (a blocked or empty
\* response whose .text raises, a network error).
GenerateOtherError(r) ==
    /\ pc[r] = "try"
    /\ depth[r] < MaxDepth
    /\ calls' = [calls EXCEPT
                   ![r] = Append(@, Call(configured, BuildPrompt(r), "other",
                                         << >>, << >>))]
    /\ Return(r, ResponseBody(MsgGenerating))
    /\ UNCHANGED << API_KEYS, api_key_queue, configured, body, depth,
                    user_message, selected, turns, offlineVars >>

\* The recursion of line 775/783 has no bound of its own: it ends when the
\* interpreter's recursion limit is hit.  The deepest call chain of a frame
\* is the library call inside the try, so the RecursionError is raised there
\* and caught by line 788.
RecursionLimit(r) ==
    /\ pc[r] = "try"
    /\ depth[r] = MaxDepth
    /\ Return(r, ResponseBody(MsgGenerating))
    /\ UNCHANGED << API_KEYS, api_key_queue, configured, body, depth, calls,
                    user_message, selected, turns, offlineVars >>

Next ==
    \/ \E r \in Reqs : Receive(r)
    \/ \E r \in Reqs : Reenter(r)
    \/ \E r \in Reqs : GenerateOk(r)
    \/ \E r \in Reqs : GenerateClientError(r)
    \/ \E r \in Reqs : GenerateOtherError(r)
    \/ \E r \in Reqs : RecursionLimit(r)

Spec == Init /\ [][Next]_vars

\* ------------------------------------------------- remove_markdown alone
\* The texts remove_markdown is applied to on its own: one emphasis span
\* between two pieces of plain text.
SeqsUpTo(S, n) == UNION { [1..k -> S] : k \in 0..n }

Delimiters ==
    { << "*", "*" >>, << "*" >>, << "_" >>, << "_", "_" >>, << "~", "~" >> }
DelimiterChars == { "*", "_", "~" }

SpanText(pre, d, x, post) == pre \o d \o x \o d \o post

\* Any short text over the delimiter characters, a letter and a newline.
MdChars == DelimiterChars \cup { "a", "\n" }

MdInputs ==
    { SpanText(pre, d, x, post) :
        pre \in SeqsUpTo({ "a", "\n" }, MaxPiece),
        d \in Delimiters,
        x \in SeqsUpTo({ "a", " " }, MaxPiece),
        post \in SeqsUpTo({ "a", "\n" }, MaxPiece) }
      \cup SeqsUpTo(MdChars, MaxText)

\* The credentials play no part here: one list is enough.
InitMd ==
    /\ InitChat
    /\ API_KEYS = << Keys[1] >>
    /\ md_in \in MdInputs
    /\ md_out = << >>
    /\ md_done = FALSE
    /\ md_again = << >>
    /\ md_redone = FALSE

\* Lines 738-744 applied to md_in.
ApplyRemoveMarkdown ==
    /\ ~md_done
    /\ md_out' = remove_markdown(md_in)
    /\ md_done' = TRUE
    /\ UNCHANGED << md_in, md_again, md_redone, chatVars, envVars >>

\* Lines 738-744 applied to the text they returned.
ApplyRemoveMarkdownAgain ==
    /\ md_done /\ ~md_redone
    /\ md_again' = remove_markdown(md_out)
    /\ md_redone' = TRUE
    /\ UNCHANGED << md_in, md_out, md_done, chatVars, envVars >>

NextMd == ApplyRemoveMarkdown \/ ApplyRemoveMarkdownAgain

SpecMd == InitMd /\ [][NextMd]_vars

\* ---------------------------------------------------------- start-up alone
\* The values of GEMINI_API_KEYS the module is imported with: unset, or up
\* to MaxFields comma-separated entries, each a credential (or nothing)
\* with or without a blank on either side.
EnvCores == { << >>, << "a" >>, << "b" >>, << "a", " ", "b" >> }
EnvPads == { << >>, << " " >> }
EnvFields == { l \o c \o r : l \in EnvPads, c \in EnvCores, r \in EnvPads }

RECURSIVE JoinFields(_)
JoinFields(fs) ==
    IF Len(fs) = 1 THEN fs[1]
    ELSE fs[1] \o << "," >> \o JoinFields(Tail(fs))

EnvTexts ==
    { JoinFields(fs) : fs \in UNION { [1..k -> EnvFields] : k \in 1..MaxFields } }

reqVars == << running, pc, body, depth, calls, resp, user_message, selected,
              turns >>

\* Before line 22 has run.
InitStartup ==
    /\ GEMINI_API_KEYS \in { EnvUnset } \cup { EnvText(t) : t \in EnvTexts }
    /\ startup = "pending"
    /\ API_KEYS = << >>
    /\ api_key_queue = << >>
    /\ configured = << >>
    /\ InitRequests
    /\ NoText

\* Lines 22-36: the import either raises a ValueError or leaves the
\* credential list, the queue built from it and genai configured with the
\* queue's front.
Startup ==
    /\ startup = "pending"
    /\ IF ~GEMINI_API_KEYS.set \/ GEMINI_API_KEYS.value = << >>
       THEN /\ startup' = MissingEnvError
            /\ UNCHANGED << API_KEYS, api_key_queue, configured >>
       ELSE LET keys == ParseKeys(GEMINI_API_KEYS.value)
            IN  IF keys = << >>
                THEN /\ startup' = NoKeysError
                     /\ UNCHANGED << API_KEYS, api_key_queue, configured >>
                ELSE /\ API_KEYS' = keys
                     /\ api_key_queue' = API_KEYS'
                     /\ configured' = api_key_queue'[1]
                     /\ startup' = "running"
    /\ UNCHANGED << GEMINI_API_KEYS, reqVars, mdVars >>

NextStartup == Startup

SpecStartup == InitStartup /\ [][NextStartup]_vars

\* ================================================================== claims
\* What the statements below mean by a classified failure: a ClientError
\* whose message reports an invalid API key or an exceeded quota, in any
\* letter case.
ReportsInvalidKey(c) ==
    c.kind = "client" /\ Contains(Lower(c.msg), Lower(InvalidKeyPhrase))
ReportsQuota(c) ==
    c.kind = "client" /\ Contains(Lower(c.msg), Lower(QuotaPhrase))
Classified(c) == ReportsInvalidKey(c) \/ ReportsQuota(c)
Unclassified(c) == c.kind \in { "client", "other" } /\ ~Classified(c)

NumKeys == Len(API_KEYS)
KeyPos(k) == CHOOSE i \in 1..NumKeys : API_KEYS[i] = k
\* The credential that follows k in rotation order.
NextInRotation(k) == API_KEYS[(KeyPos(k) % NumKeys) + 1]

KeysUsed(r, n) == { calls[r][j].key : j \in 1..n }
GenericFailures == { ResponseBody(MsgProcessing), ResponseBody(MsgGenerating) }
MissingMessage(r) ==
    body[r].kind = "object" /\ body[r].message \in { None, "" }

\* C1: when a call of a /chat request fails with a quota-exceeded ClientError
\* and more than one credential is configured, the request makes a retry call
\* and that call uses the credential that immediately follows the failed one
\* in rotation order.
C1_RetryUsesNextKey ==
    \A r \in Reqs : \A i \in 1..Len(calls[r]) :
        (ReportsQuota(calls[r][i]) /\ NumKeys > 1)
            => /\ pc[r] = "done" => i < Len(calls[r])
               /\ i < Len(calls[r])
                    => calls[r][i + 1].key = NextInRotation(calls[r][i].key)

\* C2: when a call fails with a ClientError reporting an invalid API key and
\* more than one credential is configured, the request does not end with
\* that call: it is retried instead of answered with a failure body.
C2_InvalidKeyRetried ==
    \A r \in Reqs : \A i \in 1..Len(calls[r]) :
        (ReportsInvalidKey(calls[r][i]) /\ NumKeys > 1 /\ pc[r] = "done")
            => i < Len(calls[r])

\* C3: within one /chat request no credential is used for more than one
\* completion call.
C3_EachKeyAtMostOnce ==
    \A r \in Reqs : \A i, j \in 1..Len(calls[r]) :
        i # j => calls[r][i].key # calls[r][j].key

\* C4: one /chat request makes at most N completion calls, N the number of
\* configured credentials.
C4_AtMostNCalls ==
    \A r \in Reqs : Len(calls[r]) <= NumKeys

\* C5: after N consecutive classified failures of one request, N the number
\* of configured credentials, the request has ended with the capacity body
\* and makes no further call.
C5_ExhaustionReturnsCapacity ==
    \A r \in Reqs :
        (Len(calls[r]) >= NumKeys
           /\ \A i \in 1..NumKeys : Classified(calls[r][i]))
            => /\ pc[r] = "done"
               /\ resp[r] = ResponseBody(MsgCapacity)
               /\ Len(calls[r]) = NumKeys

\* C6: after k < N consecutive classified failures the next call of the
\* request uses a credential not yet tried in it, and when that call succeeds
\* the caller receives its reply.
C6_RetryUsesUntriedKey ==
    \A r \in Reqs : \A i \in 2..Len(calls[r]) :
        (i <= NumKeys /\ \A j \in 1..(i - 1) : Classified(calls[r][j]))
            => /\ calls[r][i].key \notin KeysUsed(r, i - 1)
               /\ (calls[r][i].kind = "ok" /\ pc[r] = "done")
                    => resp[r] = ResponseBody(
                                    remove_markdown(Strip(calls[r][i].text)))

\* C7: a failure that is neither an invalid-key nor a quota-exceeded
\* ClientError is never retried: it is the last call of its request, which
\* has ended with a generic failure body; when it is the first call, the
\* request has made exactly one call.
C7_UnclassifiedNotRetried ==
    \A r \in Reqs : \A i \in 1..Len(calls[r]) :
        Unclassified(calls[r][i])
            => /\ i = Len(calls[r])
               /\ pc[r] = "done"
               /\ resp[r] \in GenericFailures

\* C7 witness: a request whose only call failed with an unclassified
\* ClientError has ended with the generic body, and another one after a
\* call that raised some other exception.
C7_Witness ==
    /\ \E r \in Reqs :
         /\ pc[r] = "done" /\ Len(calls[r]) = 1
         /\ calls[r][1].kind = "client" /\ Unclassified(calls[r][1])
         /\ resp[r] = ResponseBody(MsgProcessing)
    /\ \E r \in Reqs :
         /\ pc[r] = "done" /\ Len(calls[r]) = 1
         /\ calls[r][1].kind = "other"
         /\ resp[r] = ResponseBody(MsgGenerating)

\* C8: no /chat request ends in an exception that leaves the handler: every
\* ended request has returned a JSON body.
C8_NoUnhandledException ==
    \A r \in Reqs :
        pc[r] = "done" => resp[r].field \in { "error", "response" }

\* C9: a request whose message is absent or empty never makes a completion
\* call and ends with the error body, and the step that handles it leaves
\* the rotation queue and the configured credential unchanged.
C9_Rejected ==
    \A r \in Reqs :
        MissingMessage(r)
            => /\ calls[r] = << >>
               /\ pc[r] = "done" => resp[r] = ErrorBody(ErrNoMessage)

C9_RejectionStep ==
    \A r \in Reqs :
        (pc[r] = "idle" /\ pc'[r] # "idle"
           /\ body'[r].kind = "object" /\ body'[r].message \in { None, "" })
            => /\ api_key_queue' = api_key_queue
               /\ configured' = configured
               /\ pc'[r] = "done"

C9_MissingMessageWithoutEffect ==
    [] C9_Rejected /\ [][C9_RejectionStep]_vars

\* C9 witness: requests with an absent and with an empty message have been
\* rejected.
C9_Witness ==
    /\ \E r \in Reqs :
         /\ body[r].kind = "object" /\ body[r].message = None
         /\ pc[r] = "done" /\ resp[r] = ErrorBody(ErrNoMessage)
    /\ \E r \in Reqs :
         /\ body[r].kind = "object" /\ body[r].message = ""
         /\ pc[r] = "done" /\ resp[r] = ErrorBody(ErrNoMessage)

\* C10: a request with a message but no chat_id makes no completion call
\* and ends with an error body.
C10_MissingChatIdRejected ==
    \A r \in Reqs :
        (body[r].kind = "object" /\ body[r].message \notin { None, "" }
           /\ body[r].chat_id = None)
            => /\ calls[r] = << >>
               /\ pc[r] = "done" => resp[r].field = "error"


\* A request has ended with the reply of a successful completion call.
Succeeded(r) ==
    /\ pc[r] = "done"
    /\ calls[r] # << >>
    /\ calls[r][Len(calls[r])].kind = "ok"

StartsWith(t, p) == Len(t) >= Len(p) /\ SubSeq(t, 1, Len(p)) = p

\* C11: the credential a retry call uses is the one its request configured
\* when it rotated: from the rotation to the request's next completion call
\* no other request changes the process-wide credential.
C11_ConfiguredIsSelected ==
    \A r \in Reqs :
        (pc[r] \in { "json", "try" } /\ depth[r] > 0)
            => configured = selected[r]

C11_RetryCallStep ==
    \A r \in Reqs :
        (Len(calls'[r]) > Len(calls[r]) /\ depth[r] > 0)
            => calls'[r][Len(calls'[r])].key = selected[r]

C11_RotationRaceFree ==
    [] C11_ConfiguredIsSelected /\ [][C11_RetryCallStep]_vars

\* C11 witness: two requests have each rotated and retried, and their retry
\* calls used different credentials.
C11_Witness ==
    /\ \A r \in Reqs : Len(calls[r]) >= 2
    /\ \E r, q \in Reqs : calls[r][2].key # calls[q][2].key

\* C12: while one request is at its completion call, the handler of the
\* next request can still be started.
C12_CallDoesNotBlock ==
    \A a, b \in Reqs :
        (a # b /\ pc[a] = "try" /\ pc[b] = "idle"
           /\ \A q \in 1..(b - 1) : pc[q] # "idle")
            => ENABLED Receive(b)

\* C13: every call of one request sends the prompt of its first call, built
\* from the message of the request's body.
C13_RetrySendsSamePrompt ==
    \A r \in Reqs :
        /\ \A i \in 1..Len(calls[r]) :
             /\ calls[r][i].prompt = calls[r][1].prompt
             /\ calls[r][i].prompt = Prompt(body[r].message)
        /\ pc[r] \in { "json", "try" } => user_message[r] = body[r].message

\* C13 witness: a request has made three calls.
C13_Witness ==
    \E r \in Reqs :
        /\ Len(calls[r]) >= 3
        /\ calls[r][3].prompt = Prompt("hi")

\* C14: the prompt sent starts with the persona preamble, holds the new user
\* message and ends with the "AI:" cue.
C14_PromptEndsWithCue ==
    \A r \in Reqs : \A i \in 1..Len(calls[r]) :
        LET p == calls[r][i].prompt
        IN  /\ p[1] = PERSONALITY_PROMPT
            /\ \E j \in 2..(Len(p) - 1) : p[j] = body[r].message
            /\ p[Len(p)] = "AI:"

\* C15: after a successful /chat on a conversation, its stored turns have
\* grown by two per successful request and end with the user message
\* followed by the reply.
C15_TwoTurnsStored ==
    \A c \in ChatIds :
        /\ Len(turns[c]) =
             2 * Cardinality({ r \in Reqs : Succeeded(r) /\ body[r].chat_id = c })
        /\ \A r \in Reqs :
             (Succeeded(r) /\ body[r].chat_id = c
                /\ \A q \in Reqs : q > r => pc[q] = "idle")
                 => /\ Len(turns[c]) >= 2
                    /\ turns[c][Len(turns[c]) - 1] =
                         [role |-> "user", content |-> << body[r].message >>]
                    /\ turns[c][Len(turns[c])] =
                         [role |-> "bot", content |-> resp[r].value]

\* The text t is pre, the delimiter d, x, d again and post, where pre ends
\* at position i and x at position j, none of the three holds a delimiter
\* character and x holds no newline.
IsSpan(t, d, i, j) ==
    /\ i + Len(d) <= j /\ j + Len(d) <= Len(t)
    /\ SubSeq(t, i + 1, i + Len(d)) = d
    /\ SubSeq(t, j + 1, j + Len(d)) = d
    /\ \A k \in (1..i) \cup ((i + Len(d) + 1)..j) \cup ((j + Len(d) + 1)..Len(t)) :
         t[k] \notin DelimiterChars
    /\ \A k \in (i + Len(d) + 1)..j : t[k] # "\n"

\* C16: for a text with a single well-formed emphasis span, remove_markdown
\* returns the text with only the delimiters of the span removed.
C16_SpanDelimitersRemoved ==
    md_done =>
        \A d \in Delimiters : \A i, j \in 0..Len(md_in) :
            IsSpan(md_in, d, i, j)
                => md_out = SubSeq(md_in, 1, i)
                              \o SubSeq(md_in, i + Len(d) + 1, j)
                              \o SubSeq(md_in, j + Len(d) + 1, Len(md_in))

\* C16 witness: remove_markdown has been applied to a__a__\n .
C16_Witness ==
    /\ md_done
    /\ md_in = SpanText(<< "a" >>, << "_", "_" >>, << "a" >>, << "\n" >>)
    /\ IsSpan(md_in, << "_", "_" >>, 1, 4)
    /\ md_out = << "a", "a", "\n" >>

\* C17: when the model's text starts with the assistant-name label, the
\* reply returned does not.
C17_LeadingLabelStripped ==
    \A r \in Reqs :
        (Succeeded(r)
           /\ StartsWith(Strip(calls[r][Len(calls[r])].text), AssistantLabel))
            => ~StartsWith(resp[r].value, AssistantLabel)

\* C18: every ended request other than one rejected for its missing message
\* has received a body whose field is "response"; after a successful call
\* its value is the model's text stripped and passed through
\* remove_markdown.
C18_ResponseBodyOnly ==
    \A r \in Reqs :
        (pc[r] = "done" /\ ~MissingMessage(r))
            => /\ resp[r].field = "response"
               /\ Succeeded(r)
                    => resp[r].value =
                         remove_markdown(Strip(calls[r][Len(calls[r])].text))

\* C19: while the calls of a request fail with classified failures, no
\* credential is tried a second time before every configured credential
\* has been tried, and the request does not give up before that either.
C19_WholeRotationWalked ==
    \A r \in Reqs :
        /\ \A i \in 2..Len(calls[r]) :
             ((\A j \in 1..(i - 1) : Classified(calls[r][j]))
                /\ calls[r][i].key \in KeysUsed(r, i - 1))
                 => KeysUsed(r, i - 1) = { API_KEYS[k] : k \in 1..NumKeys }
        /\ (pc[r] = "done" /\ calls[r] # << >>
              /\ \A j \in 1..Len(calls[r]) : Classified(calls[r][j]))
                 => KeysUsed(r, Len(calls[r])) = { API_KEYS[k] : k \in 1..NumKeys }

CyclicRotations(l) ==
    { SubSeq(l, k + 1, Len(l)) \o SubSeq(l, 1, k) : k \in 0..(Len(l) - 1) }

\* C20: the rotation queue is always a cyclic rotation of the configured
\* credential list.
C20_QueueIsRotation ==
    api_key_queue \in CyclicRotations(API_KEYS)

\* C20 witness: after requests that rotated, the queue is a rotation other
\* than the configured order.
C20_Witness ==
    /\ api_key_queue # API_KEYS
    /\ api_key_queue \in CyclicRotations(API_KEYS)
    /\ \E r \in Reqs : pc[r] = "done" /\ Len(calls[r]) >= 2

\* C21: the credential genai is configured with is always the front of the
\* rotation queue, and every completion call is made with the credential
\* that is at the front of the queue when it is made.
C21_ConfiguredIsFront ==
    configured = Head(api_key_queue)

C21_CallStep ==
    \A r \in Reqs :
        Len(calls'[r]) > Len(calls[r])
            => calls'[r][Len(calls'[r])].key = Head(api_key_queue)

C21_CallsUseQueueFront ==
    [] C21_ConfiguredIsFront /\ [][C21_CallStep]_vars

\* C21 witness: with three credentials the queue has been rotated away from
\* the configured order and a retry call has used the credential at its
\* front.
C21_Witness ==
    /\ NumKeys = 3
    /\ api_key_queue # API_KEYS
    /\ \E r \in Reqs :
         /\ Len(calls[r]) >= 2
         /\ calls[r][Len(calls[r])].key = Head(api_key_queue)
         /\ calls[r][Len(calls[r])].key # calls[r][1].key

\* C22: with exactly one credential configured, a call that fails with a
\* quota-exceeded ClientError is the only call of its request, which has
\* ended with the capacity body; the queue and the configured credential
\* are what they were at start-up.
C22_SingleKeyQuotaNotRetried ==
    \A r \in Reqs : \A i \in 1..Len(calls[r]) :
        (NumKeys = 1 /\ ReportsQuota(calls[r][i]))
            => /\ Len(calls[r]) = 1
               /\ depth[r] = 0
               /\ pc[r] = "done"
               /\ resp[r] = ResponseBody(MsgCapacity)
               /\ api_key_queue = API_KEYS
               /\ configured = API_KEYS[1]

\* C22 witness: with one credential every request has ended with the
\* capacity body after one quota-exceeded failure.
C22_Witness ==
    /\ NumKeys = 1
    /\ \A r \in Reqs :
         /\ pc[r] = "done" /\ Len(calls[r]) = 1
         /\ ReportsQuota(calls[r][1])
         /\ resp[r] = ResponseBody(MsgCapacity)

\* C23: a step in which a completion call succeeds or fails unclassified
\* leaves the rotation queue and the configured credential unchanged; a
\* step that changes either of them is a classified failure of a call with
\* more than one credential configured.
C23_FrameStep ==
    /\ \A r \in Reqs :
         (/\ Len(calls'[r]) > Len(calls[r])
          /\ \/ calls'[r][Len(calls'[r])].kind = "ok"
             \/ Unclassified(calls'[r][Len(calls'[r])]))
            => /\ api_key_queue' = api_key_queue
               /\ configured' = configured
    /\ (api_key_queue' # api_key_queue \/ configured' # configured)
            => /\ NumKeys > 1
               /\ \E r \in Reqs :
                    /\ Len(calls'[r]) > Len(calls[r])
                    /\ Classified(calls'[r][Len(calls'[r])])

C23_OnlyClassifiedFailuresRotate ==
    [][C23_FrameStep]_vars

\* C23 witness: after an earlier request rotated the queue of three
\* credentials, a request whose only call succeeded has ended and the queue
\* is still the rotated one, with the credential of that call in front.
C23_Witness ==
    /\ NumKeys = 3
    /\ api_key_queue # API_KEYS
    /\ \E q, r \in Reqs :
         /\ q < r
         /\ depth[q] > 0
         /\ Succeeded(r) /\ Len(calls[r]) = 1
         /\ calls[r][1].key = Head(api_key_queue)
         /\ configured = calls[r][1].key

\* C24: when an earlier request rotated the queue and no request after it
\* did before, the first call of a later request uses the credential that
\* rotation configured, and that is not the credential whose failure caused
\* the rotation (nor, when that was the only rotation so far, the first
\* configured credential).
C24_LaterRequestsUseRotatedKey ==
    \A q, r \in Reqs :
        (/\ q < r
         /\ depth[q] > 0
         /\ \A p \in (q + 1)..(r - 1) : depth[p] = 0
         /\ calls[r] # << >>)
            => /\ calls[r][1].key = selected[q]
               /\ calls[r][1].key # calls[q][depth[q]].key
               /\ (depth[q] = 1 /\ \A p \in 1..(q - 1) : depth[p] = 0)
                    => calls[r][1].key # API_KEYS[1]

\* The entries of the text s, by position: an entry starts at the start of
\* s or after a comma and ends before the next comma or at the end of s.
EntryStarts(s) == { p \in 1..(Len(s) + 1) : p = 1 \/ s[p - 1] = "," }
EntryEnd(s, p) ==
    LET commas == { j \in p..Len(s) : s[j] = "," }
    IN  IF commas = {} THEN Len(s) ELSE SetMin(commas) - 1
\* The positions of an entry that hold something other than whitespace.
Solid(s, p) == { k \in p..EntryEnd(s, p) : s[k] \notin Whitespace }
SetMax(S) == CHOOSE j \in S : \A k \in S : j >= k
Trimmed(s, p) == SubSeq(s, SetMin(Solid(s, p)), SetMax(Solid(s, p)))
\* The entries that are not empty once trimmed.
KeptEntries(s) == { p \in EntryStarts(s) : Solid(s, p) # {} }
Rank(s, p) == Cardinality({ q \in KeptEntries(s) : q <= p })

\* C25: once start-up is over, either it raised a ValueError, which it does
\* exactly when GEMINI_API_KEYS is unset or has no entry that is non-empty
\* after trimming, or the service is running with a non-empty queue that
\* holds the trimmed non-empty entries in their order and with genai
\* configured with its front.
C25_QueueNeverEmpty ==
    LET kept == IF GEMINI_API_KEYS.set
                THEN KeptEntries(GEMINI_API_KEYS.value)
                ELSE {}
    IN  /\ startup \in { "pending", "running", MissingEnvError, NoKeysError }
        /\ startup # "pending" => (startup = "running" <=> kept # {})
        /\ (startup # "pending" /\ ~GEMINI_API_KEYS.set)
              => startup = MissingEnvError
        /\ startup = "running"
              => /\ api_key_queue # << >>
                 /\ api_key_queue = API_KEYS
                 /\ configured = api_key_queue[1]
                 /\ Len(API_KEYS) = Cardinality(kept)
                 /\ \A p \in kept :
                      API_KEYS[Rank(GEMINI_API_KEYS.value, p)]
                          = Trimmed(GEMINI_API_KEYS.value, p)

\* C25 witness: start-up with GEMINI_API_KEYS=" a,,b " has left the queue
\* a, b.
C25_Witness ==
    /\ startup = "running"
    /\ GEMINI_API_KEYS = EnvText(<< " ", "a", ",", ",", "b", " " >>)
    /\ api_key_queue = << << "a" >>, << "b" >> >>
    /\ configured = << "a" >>

\* C26: any two completion calls made for the same message send the same
\* prompt, whatever requests were handled before them.
C26_PromptDependsOnMessageOnly ==
    \A r, q \in Reqs :
        \A i \in 1..Len(calls[r]) : \A j \in 1..Len(calls[q]) :
            body[r].message = body[q].message
                => calls[r][i].prompt = calls[q][j].prompt

\* C26 witness: a request that follows one which made calls and rotated the
\* queue, and which differs from it in its chat_id, has sent the same prompt
\* for the same message.
C26_Witness ==
    \E r, q \in Reqs :
        /\ q < r
        /\ depth[q] > 0 /\ api_key_queue # API_KEYS
        /\ calls[r] # << >>
        /\ body[r].message = body[q].message
        /\ body[r].chat_id # body[q].chat_id
        /\ calls[r][1].prompt = calls[q][1].prompt

\* The bodies the handler returns for a failure (lines 752, 777/785, 787,
\* 790).
FixedFailureBodies ==
    { ErrorBody(ErrNoMessage), ResponseBody(MsgCapacity),
      ResponseBody(MsgProcessing), ResponseBody(MsgGenerating) }

Failed(r) == pc[r] = "done" /\ ~Succeeded(r)

\* How a failed request ended: without a call, or after a last call that
\* raised a quota-exceeded ClientError, another ClientError, or another
\* exception.
FailureOutcome(r) ==
    IF calls[r] = << >>
    THEN IF body[r].kind = "object" THEN "no message" ELSE "not an object"
    ELSE LET c == calls[r][Len(calls[r])]
         IN  IF ReportsQuota(c) THEN "quota"
             ELSE IF c.kind = "client" THEN "client" ELSE "other"

\* C27, as the claim states it: two failed requests that differ only in the
\* message of the ClientError their one call raised have received the
\* same body.
C27_BodyIndependentOfErrorText ==
    \A r, q \in Reqs :
        (/\ Failed(r) /\ Failed(q)
         /\ Len(calls[r]) = 1 /\ Len(calls[q]) = 1
         /\ calls[r][1].kind = "client" /\ calls[q][1].kind = "client"
         /\ body[r] = body[q])
            => resp[r] = resp[q]

\* C27, amended: the body of a failed request is one of the fixed bodies
\* (or the framework's reply to an exception that left the handler), and
\* two failed requests with the same failure outcome have received the same
\* body, whatever the text of the error and the credentials used.
C27_FailureBodiesFixed ==
    /\ \A r \in Reqs :
         Failed(r) => resp[r] \in FixedFailureBodies \cup { Unhandled }
    /\ \A r, q \in Reqs :
         (Failed(r) /\ Failed(q) /\ FailureOutcome(r) = FailureOutcome(q))
            => resp[r] = resp[q]

\* C27 witness: two requests have failed after ClientErrors with different
\* messages, made with different credentials, and received the same body.
C27_Witness ==
    \E r, q \in Reqs :
        /\ Failed(r) /\ Failed(q)
        /\ FailureOutcome(r) = "client" /\ FailureOutcome(q) = "client"
        /\ calls[r][Len(calls[r])].msg # calls[q][Len(calls[q])].msg
        /\ calls[r][Len(calls[r])].key # calls[q][Len(calls[q])].key
        /\ resp[r] = ResponseBody(MsgProcessing)
        /\ resp[q] = resp[r]

\* out is t with some of its delimiter characters deleted and every other
\* character kept, in order.
RECURSIVE DeletesOnlyDelimiters(_, _)
DeletesOnlyDelimiters(out, t) ==
    IF t = << >> THEN out = << >>
    ELSE \/ /\ out # << >>
            /\ Head(out) = Head(t)
            /\ DeletesOnlyDelimiters(Tail(out), Tail(t))
         \/ /\ Head(t) \in DelimiterChars
            /\ DeletesOnlyDelimiters(out, Tail(t))

HasDelimiter(t) == \E k \in 1..Len(t) : t[k] \in DelimiterChars

\* C28: the text remove_markdown returns is the text it was given with some
\* occurrences of '*', '_' and '~' deleted and every other character kept in
\* order; a text with none of the three is returned unchanged.
C28_OnlyDelimitersDeleted ==
    md_done =>
        /\ DeletesOnlyDelimiters(md_out, md_in)
        /\ ~HasDelimiter(md_in) => md_out = md_in

\* C28 witness: remove_markdown has been applied to ~*a*\n and returned
\* ~a\n .
C28_Witness ==
    /\ md_done
    /\ md_in = << "~", "*", "a", "*", "\n" >>
    /\ md_out = << "~", "a", "\n" >>

\* C29: remove_markdown applied to a text it returned returns that text.
C29_Idempotent ==
    md_redone => md_again = md_out

\* C29 witness: remove_markdown has returned *a for ***a, a text that still
\* holds a delimiter, and has returned *a again for it.
C29_Witness ==
    /\ md_redone
    /\ md_in = << "*", "*", "*", "a" >>
    /\ md_out = << "*", "a" >>
    /\ md_again = md_out

====
